---- MODULE Spec2Model ----
(***************************************************************************)
(* A model of the JVL franchise dashboard: the value coercers of the       *)
(* ingestion pipeline (src/src/utils.py), the SQLite store                 *)
(* (src/src/db.py) and the upload / rate / shortlist handlers (src/app.py).*)
(*                                                                         *)
(* Text is a sequence of one-character strings.  A float is a normalised   *)
(* decimal [m, e] standing for m * 10^e (m not divisible by 10, or 0).     *)
(***************************************************************************)
EXTENDS Integers, Sequences, FiniteSets, Bags, TLC

VARIABLES
    value, amountOut, intOut,      \* a spreadsheet cell and what the coercers make of it
    columns, renamed,              \* df.columns before and after normalize_columns
    df, extracted,                 \* a normalized sheet and what extract_startup_records makes of it
    leaderboard,                   \* the rows get_leaderboard_df returned
    startups, ratings, shortlists, \* the tables of db/jvl.db
    app_meta,
    user, pc,                      \* per session: st.session_state.user, position in the script run
    records, replace,              \* per session: upload_data_page's records and replace
    startup,                       \* per session: explore_page's startup
    exists,                        \* per session: toggle_shortlist's exists
    added,                         \* what the last toggle_shortlist call returned
    changed,                       \* history: the running upload has changed startups or app_meta
    ops, lastBatch, prevNames,     \* history: handlers started; last ingested batch; names before it
    rlog, streak                   \* history: rating calls per pair (and the startup shown to
                                   \* the user at the last one), toggle streaks per session

coerceVars == <<value, amountOut, intOut>>

sheetVars == <<columns, renamed, df, extracted, leaderboard>>

storeVars == <<startups, ratings, shortlists, app_meta>>

sessionVars == <<user, pc, records, replace, startup, exists, added>>

historyVars == <<changed, ops, lastBatch, prevNames, rlog, streak>>

vars == <<coerceVars, sheetVars, storeVars, sessionVars, historyVars>>

(***************************************************************************)
(* Characters and the str methods the coercers use.                        *)
(***************************************************************************)
Digits == <<"0", "1", "2", "3", "4", "5", "6", "7", "8", "9">>

IsDigit(c) == \E d \in 1..10 : Digits[d] = c

DigitVal(c) == (CHOOSE d \in 1..10 : Digits[d] = c) - 1

UpperLetters == <<"A", "B", "C", "D", "E", "F", "G", "H", "I", "J", "K", "L", "M",
                  "N", "O", "P", "Q", "R", "S", "T", "U", "V", "W", "X", "Y", "Z">>

LowerLetters == <<"a", "b", "c", "d", "e", "f", "g", "h", "i", "j", "k", "l", "m",
                  "n", "o", "p", "q", "r", "s", "t", "u", "v", "w", "x", "y", "z">>

IsSpace(c) == c = " "

IsWordChar(c) ==
    \/ IsDigit(c)
    \/ c = "_"
    \/ \E l \in 1..26 : UpperLetters[l] = c \/ LowerLetters[l] = c

\* str.lower()
Lower(t) ==
    [p \in 1..Len(t) |->
        IF \E l \in 1..26 : UpperLetters[l] = t[p]
        THEN LowerLetters[CHOOSE l \in 1..26 : UpperLetters[l] = t[p]]
        ELSE t[p]]

StartsWithAt(t, i, p) ==
    /\ i >= 1
    /\ i + Len(p) - 1 <= Len(t)
    /\ \A q \in 1..Len(p) : t[i + q - 1] = p[q]

RECURSIVE ReplaceFrom(_, _, _, _)
ReplaceFrom(t, i, old, new) ==
    IF i > Len(t) THEN <<>>
    ELSE IF StartsWithAt(t, i, old)
         THEN new \o ReplaceFrom(t, i + Len(old), old, new)
         ELSE <<t[i]>> \o ReplaceFrom(t, i + 1, old, new)

\* str.replace(old, new), old non-empty
Replace(t, old, new) == ReplaceFrom(t, 1, old, new)

RECURSIVE LStrip(_)
LStrip(t) == IF t # <<>> /\ IsSpace(Head(t)) THEN LStrip(Tail(t)) ELSE t

RECURSIVE RStrip(_)
RStrip(t) ==
    IF t # <<>> /\ IsSpace(t[Len(t)]) THEN RStrip(SubSeq(t, 1, Len(t) - 1)) ELSE t

\* str.strip()
Strip(t) == RStrip(LStrip(t))

\* the length of the run of characters satisfying a class, from position i
RECURSIVE DigitRun(_, _)
DigitRun(t, i) == IF i <= Len(t) /\ IsDigit(t[i]) THEN 1 + DigitRun(t, i + 1) ELSE 0

RECURSIVE CharRun(_, _, _)
CharRun(t, i, c) == IF i <= Len(t) /\ t[i] = c THEN 1 + CharRun(t, i + 1, c) ELSE 0

RECURSIVE SpaceRun(_, _)
SpaceRun(t, i) == IF i <= Len(t) /\ IsSpace(t[i]) THEN 1 + SpaceRun(t, i + 1) ELSE 0

RECURSIVE DigitsValue(_)
DigitsValue(t) ==
    IF t = <<>> THEN 0
    ELSE 10 * DigitsValue(SubSeq(t, 1, Len(t) - 1)) + DigitVal(t[Len(t)])

AllDigits(t) == t # <<>> /\ \A p \in 1..Len(t) : IsDigit(t[p])

(***************************************************************************)
(* Values: a spreadsheet cell is text, a number or missing (NaN); a        *)
(* coercer returns None, a number, or raises.                              *)
(***************************************************************************)
RECURSIVE Norm(_, _)
Norm(m, e) ==
    IF m = 0 THEN [m |-> 0, e |-> 0]
    ELSE IF m % 10 = 0 THEN Norm(m \div 10, e + 1)
    ELSE [m |-> m, e |-> e]

None == [kind |-> "none", m |-> 0, e |-> 0]

Raised == [kind |-> "raise", m |-> 0, e |-> 0]

Unset == [kind |-> "unset", m |-> 0, e |-> 0]

Float(m, e) == [kind |-> "float", m |-> Norm(m, e).m, e |-> Norm(m, e).e]

IntVal(n) == [kind |-> "int", m |-> n, e |-> 0]

TextCell(t) == [kind |-> "str", s |-> t, m |-> 0, e |-> 0]

NumCell(m, e) == [kind |-> "num", s |-> <<>>, m |-> Norm(m, e).m, e |-> Norm(m, e).e]

NaNCell == [kind |-> "nan", s |-> <<>>, m |-> 0, e |-> 0]

RECURSIVE Pow10(_)
Pow10(k) == IF k <= 0 THEN 1 ELSE 10 * Pow10(k - 1)

\* int(x) of a number: truncation towards zero
Trunc(m, e) ==
    IF e >= 0 THEN m * Pow10(e)
    ELSE IF m >= 0 THEN m \div Pow10(0 - e)
    ELSE 0 - ((0 - m) \div Pow10(0 - e))

(***************************************************************************)
(* Python's int(str) and float(str).                                       *)
(***************************************************************************)
NoParse == [ok |-> FALSE, m |-> 0, e |-> 0]

\* digits with single underscores between them (PEP 515)
IsIntBody(b) ==
    /\ b # <<>>
    /\ \A p \in 1..Len(b) : IsDigit(b[p]) \/ b[p] = "_"
    /\ b[1] # "_"
    /\ b[Len(b)] # "_"
    /\ \A p \in 1..(Len(b) - 1) : ~(b[p] = "_" /\ b[p + 1] = "_")

\* int(text): surrounding whitespace and a sign are accepted
PyInt(t) ==
    LET s == Strip(t)
        signed == s # <<>> /\ s[1] \in {"+", "-"}
        body == IF signed THEN Tail(s) ELSE s
        n == DigitsValue(Replace(body, <<"_">>, <<>>))
    IN IF IsIntBody(body)
       THEN [ok |-> TRUE, m |-> IF signed /\ s[1] = "-" THEN 0 - n ELSE n, e |-> 0]
       ELSE NoParse

\* float(text) for an unsigned decimal literal: digits, optionally "." and digits
PyFloat(t) ==
    LET s == Strip(t)
        n == DigitRun(s, 1)
        f == DigitRun(s, n + 2)
    IN IF AllDigits(s) THEN [ok |-> TRUE, m |-> DigitsValue(s), e |-> 0]
       ELSE IF /\ n + 1 <= Len(s)
               /\ s[n + 1] = "."
               /\ n + f >= 1
               /\ n + 1 + f = Len(s)
            THEN [ok |-> TRUE,
                  m |-> DigitsValue(SubSeq(s, 1, n) \o SubSeq(s, n + 2, Len(s))),
                  e |-> 0 - f]
            ELSE NoParse

(***************************************************************************)
(* _to_int.  The pattern is the raw string r"(19|20)\\d{2}": "19" or "20", *)
(* a backslash, and the letter d twice.                                    *)
(***************************************************************************)
YearPatterns == << <<"1", "9", "\\", "d", "d">>, <<"2", "0", "\\", "d", "d">> >>

\* re.search(r"(19|20)\\d{2}", value): the leftmost match, or none
YearSearch(t) ==
    LET hits == {i \in 1..Len(t) : \E p \in 1..2 : StartsWithAt(t, i, YearPatterns[p])}
    IN IF hits = {} THEN [ok |-> FALSE, group |-> <<>>]
       ELSE LET i == CHOOSE h \in hits : \A g \in hits : h <= g
            IN [ok |-> TRUE, group |-> SubSeq(t, i, i + 4)]

_to_int(v) ==
    IF v.kind = "nan" THEN None
    ELSE IF v.kind = "num" THEN IntVal(Trunc(v.m, v.e))
    ELSE LET match == YearSearch(v.s)
             parsed == IF match.ok THEN PyInt(match.group) ELSE PyInt(v.s)
         IN IF parsed.ok THEN IntVal(parsed.m) ELSE None

(***************************************************************************)
(* _parse_amount.  Its patterns are raw strings with doubled backslashes,  *)
(* so each "\\x" is a literal backslash followed by the atom x:            *)
(*   number  [0-9]+(?:\\.[0-9]+)?   digits, optionally a backslash, any    *)
(*                                  one character and digits               *)
(*   \\s+ , \\s*                    a backslash and a run of the letter s  *)
(*   \\b                            a backslash and the letter b           *)
(***************************************************************************)
ScaleWords == << <<"c", "r", "o", "r", "e">>, <<"c", "r">>,
                 <<"l", "a", "k", "h">>, <<"l", "a", "c">>,
                 <<"m", "i", "l", "l", "i", "o", "n">>, <<"m", "n">>, <<"m", "i", "l">>,
                 <<"b", "i", "l", "l", "i", "o", "n">>, <<"b", "n">>,
                 <<"t", "h", "o", "u", "s", "a", "n", "d">>, <<"k">> >>

\* scale_map, as powers of ten, in the order of ScaleWords
scale_map == <<7, 7, 5, 5, 6, 6, 6, 9, 9, 3, 3>>

SuffixWords == << <<"k">>, <<"m">>, <<"b">> >>

suffix_map == <<3, 6, 9>>

\* re.sub(r"\\s+", " ", text)
RECURSIVE SubBackslashS(_, _)
SubBackslashS(t, i) ==
    IF i > Len(t) THEN <<>>
    ELSE IF t[i] = "\\" /\ CharRun(t, i + 1, "s") >= 1
         THEN <<" ">> \o SubBackslashS(t, i + 1 + CharRun(t, i + 1, "s"))
         ELSE <<t[i]>> \o SubBackslashS(t, i + 1)

\* line 107-108: the text the patterns are applied to
CleanAmountText(t) ==
    Strip(SubBackslashS(
        Replace(Replace(Replace(Replace(Lower(t), <<",">>, <<" ">>),
                                <<"$">>, <<>>),
                        <<"u", "s", "$">>, <<>>),
                <<"₹">>, <<" ">>), 1))

\* the ends (first position after the match) the number pattern can take from
\* position i, in the order the backtracking matcher tries them
NumberEnds(t, i) ==
    LET n == DigitRun(t, i)
        m == IF /\ n >= 1
                /\ i + n + 1 <= Len(t)
                /\ t[i + n] = "\\"
                /\ t[i + n + 1] # "\n"
             THEN DigitRun(t, i + n + 2) ELSE 0
    IN [q \in 1..m |-> i + n + 2 + (m - q + 1)] \o [q \in 1..n |-> i + (n - q + 1)]

NoMatch == [ok |-> FALSE, start |-> 0, numEnd |-> 0, end |-> 0, word |-> 0]

\* what follows the number: for "scale" \\s*(crore|...|k)\\b, for "suffix"
\* (k|m|b)\\b, for "plain" nothing.  [ok, end, word]
PatternTail(t, j, kind) ==
    IF kind = "plain" THEN [ok |-> TRUE, end |-> j, word |-> 0]
    ELSE IF kind = "suffix"
    THEN LET ws == {w \in 1..Len(SuffixWords) :
                        StartsWithAt(t, j, SuffixWords[w] \o <<"\\", "b">>)}
         IN IF ws = {} THEN [ok |-> FALSE, end |-> 0, word |-> 0]
            ELSE LET w == CHOOSE x \in ws : \A y \in ws : x <= y
                 IN [ok |-> TRUE, end |-> j + Len(SuffixWords[w]) + 2, word |-> w]
    ELSE LET lead == j <= Len(t) /\ t[j] = "\\"
             smax == IF lead THEN CharRun(t, j + 1, "s") ELSE 0
             cands == {c \in (0..smax) \X (1..Len(ScaleWords)) :
                          /\ lead
                          /\ StartsWithAt(t, j + 1 + c[1], ScaleWords[c[2]] \o <<"\\", "b">>)}
         IN IF cands = {} THEN [ok |-> FALSE, end |-> 0, word |-> 0]
            ELSE LET c == CHOOSE x \in cands : \A y \in cands :
                              x[1] > y[1] \/ (x[1] = y[1] /\ x[2] <= y[2])
                 IN [ok |-> TRUE,
                     end |-> j + 1 + c[1] + Len(ScaleWords[c[2]]) + 2,
                     word |-> c[2]]

\* the match of a pattern starting exactly at position i
MatchAt(t, i, kind) ==
    LET ends == NumberEnds(t, i)
        good == {q \in 1..Len(ends) : PatternTail(t, ends[q], kind).ok}
    IN IF good = {} THEN NoMatch
       ELSE LET q == CHOOSE x \in good : \A y \in good : x <= y
                tl == PatternTail(t, ends[q], kind)
            IN [ok |-> TRUE, start |-> i, numEnd |-> ends[q], end |-> tl.end,
                word |-> tl.word]

\* re.findall: the non-overlapping matches, left to right
RECURSIVE FindAll(_, _, _)
FindAll(t, pos, kind) ==
    IF pos > Len(t) THEN <<>>
    ELSE LET mt == MatchAt(t, pos, kind)
         IN IF mt.ok THEN <<mt>> \o FindAll(t, mt.end, kind)
            ELSE FindAll(t, pos + 1, kind)

\* re.search: the leftmost match
Search(t, kind) ==
    LET all == FindAll(t, 1, kind)
    IN IF all = <<>> THEN NoMatch ELSE all[1]

\* float(number) * scale; float() raises ValueError on a group holding a backslash
Scaled(t, mt, exp) ==
    LET number == PyFloat(SubSeq(t, mt.start, mt.numEnd - 1))
    IN IF number.ok THEN Float(number.m, number.e + exp) ELSE Raised

_parse_amount(v) ==
    IF v.kind = "nan" THEN None
    ELSE IF v.kind = "num" THEN Float(v.m, v.e)
    ELSE LET text == CleanAmountText(v.s)
             matches == FindAll(text, 1, "scale")
             suffix_matches == FindAll(text, 1, "suffix")
             number_match == Search(text, "plain")
         IN IF Len(matches) = 1 THEN Scaled(text, matches[1], scale_map[matches[1].word])
            ELSE IF Len(matches) > 1 THEN None
            ELSE IF Len(suffix_matches) = 1
                 THEN Scaled(text, suffix_matches[1], suffix_map[suffix_matches[1].word])
            ELSE IF Len(suffix_matches) > 1 THEN None
            ELSE IF number_match.ok THEN Scaled(text, number_match, 0)
            ELSE None

(***************************************************************************)
(* The store (src/src/db.py): the tables startups, ratings, shortlists and *)
(* app_meta as sets (a bag for shortlists) of rows, and the statements of  *)
(* each function as operators on them.  rowids follow SQLite's rule for an *)
(* INTEGER PRIMARY KEY: one more than the largest rowid in the table.      *)
(***************************************************************************)
Sessions == {"s1", "s2"}

\* seed_default_users
users == {[id |-> 1, username |-> "admin", role |-> "admin"],
          [id |-> 2, username |-> "owner", role |-> "franchise_owner"]}

MaxOps == 3

MaxBatch == 2

NoneStr == [kind |-> "none", s |-> <<>>, m |-> 0, e |-> 0]

\* str(n) of a natural number
RECURSIVE IntToStr(_)
IntToStr(n) ==
    IF n < 10 THEN <<Digits[n + 1]>> ELSE IntToStr(n \div 10) \o <<Digits[(n % 10) + 1]>>

\* _to_str of a text cell, a missing cell or a cell holding a natural number
_to_str(v) ==
    IF v.kind = "nan" THEN NoneStr
    ELSE LET text == IF v.kind = "num" THEN IntToStr(Trunc(v.m, v.e)) ELSE v.s
         IN IF Strip(text) = <<>> THEN NoneStr ELSE TextCell(Strip(text))

\* The sheets an admin uploads.  A row is its startup_name cell and `fields`, the
\* year and amount cells (the other seven canonical columns go through _to_str
\* like the name); raw_json, the dump of the whole row, is modelled as the row.
NameCells == {TextCell(<<"a">>), TextCell(<<"b">>), TextCell(<<" ">>)}

FieldVals == {[year |-> NumCell(2019, 0), amount |-> NumCell(25, 5)],
              [year |-> NumCell(3000, 0), amount |-> NumCell(-5, 0)]}

Rows == [startup_name : NameCells, fields : FieldVals]

Uploads ==
    {[kind |-> k, rows |-> <<>>] : k \in {"corrupt", "empty", "no_name_column"}}
    \cup {[kind |-> "sheet", rows |-> r] :
               r \in UNION {[1..n -> Rows] : n \in 1..MaxBatch}}

StartupNames == {_to_str(c).s : c \in {x \in NameCells : _to_str(x).kind = "str"}}

StartupIds == 1..Cardinality(StartupNames)

UserIds == {u.id : u \in users}

Pairs == StartupIds \X UserIds

RatingInputs == {[rating |-> 1, comment |-> ""], [rating |-> 5, comment |-> "good"]}

\* the record of a row with a name (utils.py 151-164)
Record(row) ==
    [startup_name |-> _to_str(row.startup_name).s,
     fields |-> [year |-> _to_int(row.fields.year),
                 amount |-> _parse_amount(row.fields.amount)],
     raw_json |-> row]

\* a faulty loop that skips a row repeating the name of an earlier row
RECURSIVE NamedRowsDistinct(_)
NamedRowsDistinct(rows) ==
    IF rows = <<>> THEN <<>>
    ELSE LET row == rows[Len(rows)]
             before == NamedRowsDistinct(SubSeq(rows, 1, Len(rows) - 1))
         IN IF \/ _to_str(row.startup_name).kind = "none"
               \/ \E i \in 1..Len(before) :
                     _to_str(before[i].startup_name) = _to_str(row.startup_name)
            THEN before
            ELSE Append(before, row)

\* the rows the loop does not skip (utils.py 147-150)
RECURSIVE NamedRows(_)
NamedRows(rows) ==
    IF rows = <<>> THEN <<>>
    ELSE IF _to_str(Head(rows).startup_name).kind = "none" THEN NamedRows(Tail(rows))
    ELSE <<Head(rows)>> \o NamedRows(Tail(rows))

ExtractRows(rows) ==
    LET named == NamedRows(rows)
    IN [i \in 1..Len(named) |-> Record(named[i])]

\* utils.py 167-170: ValueError when the list of records is empty
RecordsOrError(recs) ==
    IF Len(recs) = 0 THEN [ok |-> FALSE, error |-> "validation_error", records |-> <<>>]
    ELSE [ok |-> TRUE, error |-> "", records |-> recs]

\* [ok, error, records]
extract_startup_records(rows) == RecordsOrError(ExtractRows(rows))

\* app.py 121-130: read_excel_file, normalize_startup_df, extract_startup_records
ParseUpload(upload) ==
    IF upload.kind = "corrupt"
    THEN [ok |-> FALSE, error |-> "parse_error", records |-> <<>>]
    ELSE IF upload.kind \in {"empty", "no_name_column"}
    THEN [ok |-> FALSE, error |-> "validation_error", records |-> <<>>]
    ELSE extract_startup_records(upload.rows)

NextRowId(rows) ==
    IF rows = {} THEN 1
    ELSE (CHOOSE x \in {r.id : r \in rows} : \A y \in {r.id : r \in rows} : x >= y) + 1

\* a faulty upsert: ON CONFLICT(startup_name) DO NOTHING
UpsertStartupKeepFirst(rows, r) ==
    IF \E x \in rows : x.startup_name = r.startup_name
    THEN rows
    ELSE rows \cup {[id |-> NextRowId(rows), startup_name |-> r.startup_name,
                     fields |-> r.fields, raw_json |-> r.raw_json]}

\* INSERT INTO startups ... ON CONFLICT(startup_name) DO UPDATE SET ...
UpsertStartup(rows, r) ==
    IF \E x \in rows : x.startup_name = r.startup_name
    THEN {IF x.startup_name = r.startup_name
          THEN [x EXCEPT !.fields = r.fields, !.raw_json = r.raw_json]
          ELSE x : x \in rows}
    ELSE rows \cup {[id |-> NextRowId(rows), startup_name |-> r.startup_name,
                     fields |-> r.fields, raw_json |-> r.raw_json]}

RECURSIVE InsertMany(_, _)
InsertMany(rows, recs) ==
    IF recs = <<>> THEN rows
    ELSE InsertMany(UpsertStartup(rows, Head(recs)), Tail(recs))

\* DELETE FROM startups, then the executemany, in one transaction
replace_startups(rows, recs) == InsertMany({}, recs)

get_meta(meta, key) ==
    IF \E r \in meta : r.key = key
    THEN TextCell((CHOOSE r \in meta : r.key = key).value)
    ELSE NoneStr

set_meta(meta, key, val) ==
    IF \E r \in meta : r.key = key
    THEN {IF r.key = key THEN [r EXCEPT !.value = val] ELSE r : r \in meta}
    ELSE meta \cup {[key |-> key, value |-> val]}

get_startup_by_id(rows, id) == {r \in rows : r.id = id}

\* a faulty upsert: ON CONFLICT(startup_id, user_id) DO NOTHING
UpsertRatingKeepFirst(rows, startup_id, user_id, rating, comment) ==
    IF \E x \in rows : x.startup_id = startup_id /\ x.user_id = user_id
    THEN rows
    ELSE rows \cup {[id |-> NextRowId(rows), startup_id |-> startup_id,
                     user_id |-> user_id, rating |-> rating, comment |-> comment]}

\* a faulty upsert: a plain INSERT on a table without the UNIQUE constraint
UpsertRatingInsertOnly(rows, startup_id, user_id, rating, comment) ==
    rows \cup {[id |-> NextRowId(rows), startup_id |-> startup_id,
                user_id |-> user_id, rating |-> rating, comment |-> comment]}

\* INSERT INTO ratings ... ON CONFLICT(startup_id, user_id) DO UPDATE SET ...
upsert_rating(rows, startup_id, user_id, rating, comment) ==
    IF \E x \in rows : x.startup_id = startup_id /\ x.user_id = user_id
    THEN {IF x.startup_id = startup_id /\ x.user_id = user_id
          THEN [x EXCEPT !.rating = rating, !.comment = comment]
          ELSE x : x \in rows}
    ELSE rows \cup {[id |-> NextRowId(rows), startup_id |-> startup_id,
                     user_id |-> user_id, rating |-> rating, comment |-> comment]}

\* SELECT 1 FROM shortlists WHERE startup_id = ? AND user_id = ?
ShortlistExists(bag, p) == BagIn(p, bag)

\* a faulty DELETE that removes nothing
ShortlistDeleteNothing(bag, p) == bag

\* DELETE FROM shortlists WHERE startup_id = ? AND user_id = ?
ShortlistDelete(bag, p) == [q \in (DOMAIN bag) \ {p} |-> bag[q]]

\* a faulty INSERT whose row is never committed
ShortlistInsertNothing(bag, p) == bag

\* INSERT INTO shortlists(...): refused by UNIQUE(startup_id, user_id)
ShortlistInsertAllowed(bag, p) == ~BagIn(p, bag)

ShortlistInsert(bag, p) == bag (+) SetToBag({p})

(***************************************************************************)
(* The handlers (src/app.py).  Each `with get_connection()` block of db.py *)
(* is one transaction and one step; a handler that calls several is        *)
(* several steps, and other sessions may run in between.                   *)
(***************************************************************************)
NoStartup == [id |-> 0, startup_name |-> <<>>]

NoStreak == [pair |-> <<0, 0>>, orig |-> FALSE, n |-> 0]

NoCalls == [rating |-> 0, comment |-> "", calls |-> 0, repeat |-> FALSE, name |-> <<>>]

Uploading == {"replace", "set_locked", "set_count"}

Locked(meta) == get_meta(meta, "startup_locked") = TextCell(<<"1">>)

Member(p) == ShortlistExists(shortlists, p)

\* the script run of session s ends
Finish(s) ==
    /\ pc' = [pc EXCEPT ![s] = "idle"]
    /\ records' = [records EXCEPT ![s] = <<>>]
    /\ replace' = [replace EXCEPT ![s] = FALSE]
    /\ startup' = [startup EXCEPT ![s] = NoStartup]
    /\ exists' = [exists EXCEPT ![s] = FALSE]
    /\ changed' = [changed EXCEPT ![s] = FALSE]

SheetIdle ==
    /\ columns = <<>>
    /\ renamed = Unset
    /\ df = <<>>
    /\ extracted = Unset
    /\ leaderboard = Unset

SessionIdle ==
    /\ pc = [s \in Sessions |-> "idle"]
    /\ records = [s \in Sessions |-> <<>>]
    /\ replace = [s \in Sessions |-> FALSE]
    /\ startup = [s \in Sessions |-> NoStartup]
    /\ exists = [s \in Sessions |-> FALSE]
    /\ added = "none"
    /\ changed = [s \in Sessions |-> FALSE]
    /\ ops = 0
    /\ lastBatch = <<>>
    /\ prevNames = {}
    /\ rlog = [p \in Pairs |-> NoCalls]
    /\ streak = [s \in Sessions |-> NoStreak]

StoreIdle ==
    /\ startups = {}
    /\ ratings = {}
    /\ shortlists = EmptyBag
    /\ app_meta = {}
    /\ SessionIdle

\* after init_db and seed_default_users, every session signed in
Init ==
    /\ StoreIdle
    /\ user \in {u \in [Sessions -> users] : u["s1"].role = "admin"}
    /\ value = NaNCell
    /\ amountOut = Unset
    /\ intOut = Unset
    /\ SheetIdle

\* lines 125-134 of upload_data_page, given what lines 111-124 produced
AfterParse(s, parsed, locked, override) ==
    IF ~parsed.ok THEN Finish(s)
    ELSE IF locked /\ ~(locked /\ override) THEN Finish(s)
    ELSE /\ pc' = [pc EXCEPT ![s] = "replace"]
         /\ records' = [records EXCEPT ![s] = parsed.records]
         /\ replace' = [replace EXCEPT ![s] = locked /\ override]
         /\ UNCHANGED <<startup, exists, changed>>

\* upload_data_page up to the call of replace_startups (lines 111-134)
UploadSubmit(s, upload, override) ==
    /\ pc[s] = "idle"
    /\ ops < MaxOps
    /\ user[s].role = "admin"
    /\ override => Locked(app_meta)
    /\ AfterParse(s, ParseUpload(upload), Locked(app_meta), override)
    /\ ops' = ops + 1
    /\ UNCHANGED <<coerceVars, sheetVars, added, storeVars, user, lastBatch, prevNames, rlog, streak>>

\* replace_startups(records) commits (line 137); replace is not read after line 132
ReplaceStartups(s) ==
    /\ pc[s] = "replace"
    /\ startups' = replace_startups(startups, records[s])
    /\ pc' = [pc EXCEPT ![s] = "set_locked"]
    /\ lastBatch' = records[s]
    /\ prevNames' = {r.startup_name : r \in startups}
    /\ changed' = [changed EXCEPT ![s] = changed[s] \/ startups' # startups]
    /\ replace' = [replace EXCEPT ![s] = FALSE]
    /\ UNCHANGED <<coerceVars, sheetVars, added, ratings, shortlists, app_meta, user, records,
                   startup, exists, ops, rlog, streak>>

\* replace_startups raises: the connection rolls back (lines 138-140)
ReplaceStartupsFails(s) ==
    /\ pc[s] = "replace"
    /\ Finish(s)
    /\ UNCHANGED <<coerceVars, sheetVars, added, storeVars, user, ops, lastBatch, prevNames, rlog, streak>>

\* set_meta("startup_locked", "1") (line 142)
SetMetaLocked(s) ==
    /\ pc[s] = "set_locked"
    /\ app_meta' = set_meta(app_meta, "startup_locked", <<"1">>)
    /\ pc' = [pc EXCEPT ![s] = "set_count"]
    /\ changed' = [changed EXCEPT ![s] = changed[s] \/ app_meta' # app_meta]
    /\ UNCHANGED <<coerceVars, sheetVars, added, startups, ratings, shortlists, user, records,
                   replace, startup, exists, ops, lastBatch, prevNames, rlog, streak>>

\* set_meta("startup_count", str(len(records))) (lines 143-144)
SetMetaCount(s) ==
    /\ pc[s] = "set_count"
    /\ app_meta' = set_meta(app_meta, "startup_count", IntToStr(Len(records[s])))
    /\ Finish(s)
    /\ UNCHANGED <<coerceVars, sheetVars, added, startups, ratings, shortlists, user, ops, lastBatch,
                   prevNames, rlog, streak>>

\* either set_meta raises (store unavailable): nothing catches it, the run ends
SetMetaFails(s) ==
    /\ pc[s] \in {"set_locked", "set_count"}
    /\ Finish(s)
    /\ UNCHANGED <<coerceVars, sheetVars, added, storeVars, user, ops, lastBatch, prevNames, rlog, streak>>

\* explore_page: get_startups_df and the selectbox (lines 151-230)
ExploreSelect(s) ==
    /\ pc[s] = "idle"
    /\ ops < MaxOps
    /\ \E selected \in startups :
          startup' = [startup EXCEPT ![s] = [id |-> selected.id,
                                             startup_name |-> selected.startup_name]]
    /\ pc' = [pc EXCEPT ![s] = "selected"]
    /\ ops' = ops + 1
    /\ UNCHANGED <<coerceVars, sheetVars, added, storeVars, user, records, replace, exists,
                   changed, lastBatch, prevNames, rlog, streak>>

\* startup = get_startup_by_id(int(selected["id"])) (lines 232-235)
ExploreLoad(s) ==
    /\ pc[s] = "selected"
    /\ LET found == get_startup_by_id(startups, startup[s].id)
       IN IF found = {}
          THEN Finish(s)
          ELSE /\ \E row \in found :
                     startup' = [startup EXCEPT ![s] = [id |-> row.id,
                                                        startup_name |-> row.startup_name]]
               /\ pc' = [pc EXCEPT ![s] = "detail"]
               /\ UNCHANGED <<records, replace, exists, changed>>
    /\ UNCHANGED <<coerceVars, sheetVars, added, storeVars, user, ops, lastBatch, prevNames, rlog,
                   streak>>

\* the run ends with no button pressed
LeavePage(s) ==
    /\ pc[s] = "detail"
    /\ Finish(s)
    /\ UNCHANGED <<coerceVars, sheetVars, added, storeVars, user, ops, lastBatch, prevNames, rlog,
                   streak>>

\* "Save rating": upsert_rating(startup["id"], user["id"], rating, comment) (373-375)
SaveRating(s, in) ==
    /\ pc[s] = "detail"
    /\ LET p == <<startup[s].id, user[s].id>>
       IN /\ ratings' = upsert_rating(ratings, p[1], p[2], in.rating, in.comment)
          /\ rlog' = [rlog EXCEPT ![p] =
                        [rating |-> in.rating, comment |-> in.comment,
                         calls |-> IF rlog[p].calls >= 1 THEN 2 ELSE 1,
                         repeat |-> /\ rlog[p].calls >= 1
                                    /\ rlog[p].rating = in.rating
                                    /\ rlog[p].comment = in.comment,
                         name |-> startup[s].startup_name]]
    /\ Finish(s)
    /\ UNCHANGED <<coerceVars, sheetVars, added, startups, shortlists, app_meta, user, ops,
                   lastBatch, prevNames, streak>>

\* "Toggle shortlist": the SELECT of toggle_shortlist (db.py 184-187), outside any
\* transaction
ToggleSelect(s) ==
    /\ pc[s] = "detail"
    /\ LET p == <<startup[s].id, user[s].id>>
       IN /\ exists' = [exists EXCEPT ![s] = ShortlistExists(shortlists, p)]
          /\ streak' = [streak EXCEPT ![s] =
                          IF streak[s].pair = p /\ streak[s].n = 1 THEN streak[s]
                          ELSE [pair |-> p, orig |-> Member(p), n |-> 0]]
    /\ pc' = [pc EXCEPT ![s] = "toggle_write"]
    /\ UNCHANGED <<coerceVars, sheetVars, added, storeVars, user, records, replace, startup,
                   changed, ops, lastBatch, prevNames, rlog>>

\* the streaks after session s wrote pair p; ok: the call of s returned a value
StreakAfterWrite(s, p, ok) ==
    [t \in Sessions |->
        IF t = s
        THEN (IF ok /\ streak[s].pair = p
              THEN [streak[s] EXCEPT !.n = streak[s].n + 1] ELSE NoStreak)
        ELSE IF streak[t].pair = p THEN NoStreak ELSE streak[t]]

\* the DELETE or INSERT of toggle_shortlist and its commit (db.py 188-198)
ToggleWrite(s) ==
    /\ pc[s] = "toggle_write"
    /\ LET p == <<startup[s].id, user[s].id>>
       IN IF exists[s]
          THEN /\ shortlists' = ShortlistDelete(shortlists, p)
               /\ added' = "False"
               /\ streak' = StreakAfterWrite(s, p, TRUE)
          ELSE IF ShortlistInsertAllowed(shortlists, p)
          THEN /\ shortlists' = ShortlistInsert(shortlists, p)
               /\ added' = "True"
               /\ streak' = StreakAfterWrite(s, p, TRUE)
          ELSE /\ shortlists' = shortlists
               /\ added' = "IntegrityError"
               /\ streak' = StreakAfterWrite(s, p, FALSE)
    /\ Finish(s)
    /\ UNCHANGED <<coerceVars, sheetVars, startups, ratings, app_meta, user, ops,
                   lastBatch, prevNames, rlog>>

Next ==
    \/ \E s \in Sessions, upload \in Uploads, override \in BOOLEAN :
           UploadSubmit(s, upload, override)
    \/ \E s \in Sessions : ReplaceStartups(s)
    \/ \E s \in Sessions : ReplaceStartupsFails(s)
    \/ \E s \in Sessions : SetMetaLocked(s)
    \/ \E s \in Sessions : SetMetaCount(s)
    \/ \E s \in Sessions : SetMetaFails(s)
    \/ \E s \in Sessions : ExploreSelect(s)
    \/ \E s \in Sessions : ExploreLoad(s)
    \/ \E s \in Sessions : LeavePage(s)
    \/ \E s \in Sessions, in \in RatingInputs : SaveRating(s, in)
    \/ \E s \in Sessions : ToggleSelect(s)
    \/ \E s \in Sessions : ToggleWrite(s)

Spec == Init /\ [][Next]_vars

(***************************************************************************)
(* Claims about the store and the handlers.                                *)
(***************************************************************************)
NamesOf(recs) == {recs[i].startup_name : i \in 1..Len(recs)}

LastWithName(recs, n) ==
    recs[CHOOSE i \in 1..Len(recs) :
            /\ recs[i].startup_name = n
            /\ \A j \in (i + 1)..Len(recs) : recs[j].startup_name # n]

PairOf(s) == <<startup[s].id, user[s].id>>

RatingRows(p) == {x \in ratings : x.startup_id = p[1] /\ x.user_id = p[2]}

\* C5: no two startup rows share a startup_name; the stored names are exactly the
\* distinct names of the last successful batch, and the row of each name carries
\* the fields and fallback payload of the latest record with that name.
C5_StartupsUniqueLatest ==
    /\ \A x, y \in startups : x.startup_name = y.startup_name => x = y
    /\ {x.startup_name : x \in startups} = NamesOf(lastBatch)
    /\ \A x \in startups :
          x.startup_name \in NamesOf(lastBatch) =>
              /\ x.fields = LastWithName(lastBatch, x.startup_name).fields
              /\ x.raw_json = LastWithName(lastBatch, x.startup_name).raw_json

\* a batch was ingested that names twice, with different fields, a startup that
\* was already stored
C5_Witness ==
    \E i, j \in 1..Len(lastBatch) :
        /\ i < j
        /\ lastBatch[i].startup_name = lastBatch[j].startup_name
        /\ lastBatch[i].fields # lastBatch[j].fields
        /\ lastBatch[i].startup_name \in prevNames
        /\ \E x \in startups : x.startup_name = lastBatch[j].startup_name

\* the upload of session s ends in failure with this step
UploadFails(s) ==
    \/ ReplaceStartupsFails(s)
    \/ SetMetaFails(s)
    \/ /\ pc[s] = "idle"
       /\ \E upload \in Uploads, override \in BOOLEAN : UploadSubmit(s, upload, override)
       /\ pc'[s] = "idle"

\* C6: an upload that fails at any stage leaves the startups table and the
\* metadata flags as they were before it: neither the failing step nor any earlier
\* step of that upload has changed them.
C6_FailedUploadLeavesStore ==
    [][\A s \in Sessions :
           UploadFails(s) =>
               /\ ~changed[s]
               /\ startups' = startups
               /\ app_meta' = app_meta]_vars

\* C7: there is at most one ratings row per (startup_id, user_id), and its rating
\* and comment are those of the most recent upsert_rating call for that pair.
C7_OneRatingPerPairLatest ==
    /\ \A x \in ratings : <<x.startup_id, x.user_id>> \in Pairs
    /\ \A p \in Pairs :
          /\ Cardinality(RatingRows(p)) <= 1
          /\ rlog[p].calls = 0 => RatingRows(p) = {}
          /\ rlog[p].calls > 0 =>
                \E x \in RatingRows(p) :
                    x.rating = rlog[p].rating /\ x.comment = rlog[p].comment

\* a pair was rated twice with different values
C7_Witness ==
    \E p \in Pairs :
        /\ rlog[p].calls = 2
        /\ ~rlog[p].repeat
        /\ \E x \in RatingRows(p) : x.rating = rlog[p].rating

\* toggle_shortlist of session s returns with this step
ToggleReturns(s) ==
    /\ pc[s] = "toggle_write"
    /\ pc'[s] = "idle"
    /\ added' \in {"True", "False"}

\* C8: toggle_shortlist returns true exactly when the pair is a member after the
\* call; two consecutive toggles of a pair restore its original membership; and
\* shortlists never holds more than one row for a pair.
C8_ToggleReturnsMembership ==
    /\ [](/\ \A p \in DOMAIN shortlists : CopiesIn(p, shortlists) <= 1
          /\ \A s \in Sessions :
                streak[s].n = 2 => (Member(streak[s].pair) <=> streak[s].orig))
    /\ [][\A s \in Sessions :
              ToggleReturns(s) =>
                  ((added' = "True") <=> BagIn(PairOf(s), shortlists'))]_vars

\* a session toggled an absent pair twice in a row: added, then removed again
C8_Witness ==
    \E s \in Sessions :
        /\ streak[s].n = 2
        /\ ~streak[s].orig
        /\ added = "False"
        /\ ~Member(streak[s].pair)

\* the step is upsert_rating called again with the arguments of the last call for
\* the pair
RetryRating(s) ==
    /\ pc[s] = "detail"
    /\ rlog' # rlog
    /\ rlog'[PairOf(s)].repeat

\* the step completes toggle_shortlist called a second time in a row by session s
RetryToggle(s) ==
    /\ pc[s] = "toggle_write"
    /\ streak[s].n = 1
    /\ streak'[s].n = 2

\* C9 as stated: every write on ratings and shortlists is idempotent under retry;
\* the same upsert_rating call or the same toggle_shortlist call executed a second
\* time leaves the stored rating and the membership as after the first execution.
C9_WritesIdempotentUnderRetry ==
    [][\A s \in Sessions :
           /\ RetryRating(s) => ratings' = ratings
           /\ RetryToggle(s) => shortlists' = shortlists]_vars

\* C9 as amended: the same upsert_rating call executed a second time leaves the
\* stored rating and comment as after the first execution; the same
\* toggle_shortlist call executed a second time undoes the first, leaving the
\* membership as it was before the first execution.
C9_RetryKeepsRatingRevertsToggle ==
    [][\A s \in Sessions :
           /\ RetryRating(s) => ratings' = ratings
           /\ RetryToggle(s) =>
                 /\ BagIn(PairOf(s), shortlists') # BagIn(PairOf(s), shortlists)
                 /\ BagIn(PairOf(s), shortlists') <=> streak[s].orig]_vars

\* a rating was saved twice with the same arguments
C9_Witness ==
    \E p \in Pairs :
        /\ rlog[p].repeat
        /\ \E x \in RatingRows(p) : x.rating = rlog[p].rating /\ x.comment = rlog[p].comment

\* C10: every logical operation takes effect as one atomic step.  An ingestion is
\* visible only together with its lock flag and count, and concurrent toggles of a
\* pair end as some serial order of them does, so none ends in an error.
C10_OperationsAtomic ==
    /\ lastBatch # <<>> =>
          /\ Locked(app_meta)
          /\ get_meta(app_meta, "startup_count") = TextCell(IntToStr(Len(lastBatch)))
    /\ added # "IntegrityError"

\* C11: once startup_locked is "1", the startups table is changed only by an
\* upload whose session enabled the replace override; every other step taken while
\* the master is locked, by any session, leaves the table unchanged.
C11_LockedMasterNeedsOverride ==
    [][(Locked(app_meta) /\ startups' # startups) =>
           \E s \in Sessions :
               /\ pc[s] = "replace"
               /\ pc'[s] = "set_locked"
               /\ replace[s]]_vars

(***************************************************************************)
(* The cells the coercers are applied to: the texts the specification      *)
(* names, texts that meet the patterns as they are written, every text of  *)
(* at most MaxTokens tokens, numeric cells and the missing cell.           *)
(***************************************************************************)
MaxTokens == 3

ExampleTexts ==
    { <<"₹", "2", ".", "5", " ", "c", "r", "o", "r", "e">>,
      <<"$", "1", ".", "2", "M">>,
      <<"3", ".", "4", "k">>,
      <<"5", "0", "0">>,
      <<"1", ",", "5", "0", "0">>,
      <<"2", ".", "5">>,
      <<"2", " ", "l", "a", "k", "h", " ", "3", " ", "m", "i", "l", "l", "i", "o", "n">>,
      <<"2", "k", " ", "3", "m">>,
      <<"F", "u", "n", "d", "e", "d", " ", "i", "n", " ", "2", "0", "1", "9">>,
      <<"F", "Y", "2", "1">>,
      <<"2", "0", "1", "9">>,
      <<" ", "2", "0", "1", "9", " ">>,
      <<>>,
      <<"u", "s", "$", "5", " ", "m", "n">>,
      <<"1", ".", "5", " ", "l", "a", "k", "h">>,
      <<"1", "0", " ", "b", "n">>,
      <<"7", " ", "c", "r", "o", "r", "e", "s">>,
      <<"2", "\\", "c", "r", "\\", "b">>,
      <<"2", "k", "\\", "b">>,
      <<"2", "k", "\\", "b", " ", "3", "m", "\\", "b">>,
      <<"2", "\\", ".", "5">>,
      <<"2", "\\", "s", "s", "\\", "k", "\\", "b">>,
      <<"1", "9", "\\", "d", "d">>,
      <<"1", "_", "0">>,
      <<"-", "3">> }

Tokens == << <<"2">>, <<"5">>, <<".">>, <<",">>, <<" ">>, <<"k">>, <<"m">>, <<"\\">>, <<"b">>, <<"c", "r">>, <<"$">>, <<"1", "9">>, <<"d", "d">> >>

RECURSIVE Flatten(_)
Flatten(ts) == IF ts = <<>> THEN <<>> ELSE Tokens[Head(ts)] \o Flatten(Tail(ts))

TokenTexts ==
    {Flatten(ts) : ts \in UNION {[1..n -> 1..Len(Tokens)] : n \in 0..MaxTokens}}

NumericCells ==
    {NumCell(2019, 0), NumCell(20197, -1), NumCell(3000, 0), NumCell(-5, 0),
     NumCell(-25, -1), NumCell(12, 5)}

Cells == {TextCell(t) : t \in ExampleTexts \cup TokenTexts} \cup NumericCells \cup {NaNCell}

InitCoerce ==
    /\ value \in Cells
    /\ amountOut = Unset
    /\ intOut = Unset
    /\ SheetIdle
    /\ StoreIdle
    /\ user = [s \in Sessions |-> CHOOSE u \in users : u.id = 1]

\* extract_startup_records applies _parse_amount to the amount cell ...
ParseAmount ==
    /\ amountOut = Unset
    /\ amountOut' = _parse_amount(value)
    /\ UNCHANGED <<value, intOut, sheetVars, storeVars, sessionVars, historyVars>>

\* ... and _to_int to the year cell
ToInt ==
    /\ intOut = Unset
    /\ intOut' = _to_int(value)
    /\ UNCHANGED <<value, amountOut, sheetVars, storeVars, sessionVars, historyVars>>

NextCoerce == ParseAmount \/ ToInt

SpecCoerce == InitCoerce /\ [][NextCoerce]_vars

(***************************************************************************)
(* The patterns as the specification states them, for the claims about     *)
(* the coercers: a number is digits with an optional "." and digits, \s is *)
(* whitespace, \b a word boundary, \d a digit; thousands separators are    *)
(* removed and whitespace runs collapsed before matching.                  *)
(***************************************************************************)
RECURSIVE CollapseSpaces(_, _)
CollapseSpaces(t, i) ==
    IF i > Len(t) THEN <<>>
    ELSE IF IsSpace(t[i]) THEN <<" ">> \o CollapseSpaces(t, i + SpaceRun(t, i))
    ELSE <<t[i]>> \o CollapseSpaces(t, i + 1)

StatedCleanText(t) ==
    Strip(CollapseSpaces(
        Replace(Replace(Replace(Replace(Lower(t), <<",">>, <<>>),
                                <<"u", "s", "$">>, <<>>),
                        <<"$">>, <<>>),
                <<"₹">>, <<>>), 1))

StatedNumberEnds(t, i) ==
    LET n == DigitRun(t, i)
        m == IF n >= 1 /\ i + n <= Len(t) /\ t[i + n] = "."
             THEN DigitRun(t, i + n + 1) ELSE 0
    IN [q \in 1..m |-> i + n + 1 + (m - q + 1)] \o [q \in 1..n |-> i + (n - q + 1)]

AtWordEnd(t, j) == j > Len(t) \/ ~IsWordChar(t[j])

StatedTail(t, j, kind) ==
    IF kind = "plain" THEN [ok |-> TRUE, end |-> j, word |-> 0]
    ELSE LET words == IF kind = "suffix" THEN SuffixWords ELSE ScaleWords
             smax == IF kind = "suffix" THEN 0 ELSE SpaceRun(t, j)
             cands == {c \in (0..smax) \X (1..Len(words)) :
                          /\ StartsWithAt(t, j + c[1], words[c[2]])
                          /\ AtWordEnd(t, j + c[1] + Len(words[c[2]]))}
         IN IF cands = {} THEN [ok |-> FALSE, end |-> 0, word |-> 0]
            ELSE LET c == CHOOSE x \in cands : \A y \in cands :
                              x[1] > y[1] \/ (x[1] = y[1] /\ x[2] <= y[2])
                 IN [ok |-> TRUE, end |-> j + c[1] + Len(words[c[2]]), word |-> c[2]]

StatedMatchAt(t, i, kind) ==
    LET ends == StatedNumberEnds(t, i)
        good == {q \in 1..Len(ends) : StatedTail(t, ends[q], kind).ok}
    IN IF good = {} THEN NoMatch
       ELSE LET q == CHOOSE x \in good : \A y \in good : x <= y
                tl == StatedTail(t, ends[q], kind)
            IN [ok |-> TRUE, start |-> i, numEnd |-> ends[q], end |-> tl.end,
                word |-> tl.word]

RECURSIVE StatedFindAll(_, _, _)
StatedFindAll(t, pos, kind) ==
    IF pos > Len(t) THEN <<>>
    ELSE LET mt == StatedMatchAt(t, pos, kind)
         IN IF mt.ok THEN <<mt>> \o StatedFindAll(t, mt.end, kind)
            ELSE StatedFindAll(t, pos + 1, kind)

StatedScaleMatches(v) == StatedFindAll(StatedCleanText(v.s), 1, "scale")

StatedSuffixMatches(v) == StatedFindAll(StatedCleanText(v.s), 1, "suffix")

StatedPlainMatches(v) == StatedFindAll(StatedCleanText(v.s), 1, "plain")

\* the full decimal number of a match, times 10^exp
StatedProduct(v, mt, exp) ==
    LET number == PyFloat(SubSeq(StatedCleanText(v.s), mt.start, mt.numEnd - 1))
    IN Float(number.m, number.e + exp)

\* the first 4-digit token 19xx or 20xx of a text
StatedYearHits(t) ==
    {i \in 1..Len(t) :
        /\ StartsWithAt(t, i, <<"1", "9">>) \/ StartsWithAt(t, i, <<"2", "0">>)
        /\ i + 3 <= Len(t)
        /\ IsDigit(t[i + 2])
        /\ IsDigit(t[i + 3])}

AmountParsed == value.kind = "str" /\ amountOut # Unset

\* C1: a text with more than one <number><optional space><scale word> match, and
\* likewise one with no such match and more than one tight <number><k|m|b> match,
\* is coerced to null, never to a number picked from the text.
C1_AmbiguousAmountIsNull ==
    AmountParsed =>
        ((\/ Len(StatedScaleMatches(value)) > 1
          \/ Len(StatedScaleMatches(value)) = 0 /\ Len(StatedSuffixMatches(value)) > 1)
            => amountOut = None)

\* C2: a text with exactly one number followed by a scale word, or otherwise exactly
\* one number with a tight k/m/b suffix, is coerced to the full decimal number
\* multiplied by that scale.
C2_SingleMatchIsNumberTimesScale ==
    AmountParsed =>
        /\ Len(StatedScaleMatches(value)) = 1 =>
              amountOut = StatedProduct(value, StatedScaleMatches(value)[1],
                                        scale_map[StatedScaleMatches(value)[1].word])
        /\ (Len(StatedScaleMatches(value)) = 0 /\ Len(StatedSuffixMatches(value)) = 1) =>
              amountOut = StatedProduct(value, StatedSuffixMatches(value)[1],
                                        suffix_map[StatedSuffixMatches(value)[1].word])

\* C3: a text with no scale-word or suffix match is coerced, thousands separators
\* stripped, to the value of its first plain numeric token including the decimal
\* part, and to null when it holds no numeric token.
C3_PlainNumberFallback ==
    (AmountParsed /\ Len(StatedScaleMatches(value)) = 0
                  /\ Len(StatedSuffixMatches(value)) = 0) =>
        IF StatedPlainMatches(value) = <<>> THEN amountOut = None
        ELSE amountOut = StatedProduct(value, StatedPlainMatches(value)[1], 0)

\* C4: integer coercion of a text returns its first embedded 19xx/20xx token; only
\* when there is none does it parse the whole text as an integer, null on failure.
C4_YearTokenFirst ==
    (value.kind = "str" /\ intOut # Unset) =>
        IF StatedYearHits(value.s) # {}
        THEN LET i == CHOOSE h \in StatedYearHits(value.s) :
                          \A g \in StatedYearHits(value.s) : h <= g
             IN intOut = IntVal(DigitsValue(SubSeq(value.s, i, i + 3)))
        ELSE intOut = IF PyInt(value.s).ok THEN IntVal(PyInt(value.s).m) ELSE None

(***************************************************************************)
(* The column normalizer (src/src/utils.py 30-50), applied to the header   *)
(* row of a sheet.  pandas hands over pairwise distinct headers.           *)
(***************************************************************************)
IsAlnum(c) == IsWordChar(c) /\ c # "_"

\* re.sub(r"[^a-zA-Z0-9]+", "_", t)
RECURSIVE SubNonAlnum(_)
SubNonAlnum(t) ==
    IF t = <<>> THEN <<>>
    ELSE IF IsAlnum(t[1]) THEN <<t[1]>> \o SubNonAlnum(Tail(t))
    ELSE IF Len(t) >= 2 /\ ~IsAlnum(t[2]) THEN SubNonAlnum(Tail(t))
    ELSE <<"_">> \o SubNonAlnum(Tail(t))

\* re.sub(r"_+", "_", t)
RECURSIVE SubUnderscores(_)
SubUnderscores(t) ==
    IF t = <<>> THEN <<>>
    ELSE IF t[1] = "_" /\ Len(t) >= 2 /\ t[2] = "_" THEN SubUnderscores(Tail(t))
    ELSE <<t[1]>> \o SubUnderscores(Tail(t))

\* t.strip("_")
RECURSIVE StripUnderscores(_)
StripUnderscores(t) ==
    IF t = <<>> THEN <<>>
    ELSE IF t[1] = "_" THEN StripUnderscores(Tail(t))
    ELSE IF t[Len(t)] = "_" THEN StripUnderscores(SubSeq(t, 1, Len(t) - 1))
    ELSE t

normalize_column_name(name) ==
    StripUnderscores(SubUnderscores(SubNonAlnum(Lower(Strip(name)))))

\* seen[normalized] when column i is reached: the columns so far with its token
SeenCount(cols, i) ==
    Cardinality({j \in 1..i : normalize_column_name(cols[j]) = normalize_column_name(cols[i])})

\* the names df.rename gives the columns; ValueError on an empty frame
normalize_columns(cols) ==
    IF cols = <<>> THEN [kind |-> "raise", names |-> <<>>]
    ELSE [kind |-> "columns",
          names |-> [i \in 1..Len(cols) |->
                       LET normalized == normalize_column_name(cols[i])
                           count == SeenCount(cols, i)
                       IN IF count > 1 THEN normalized \o <<"_">> \o IntToStr(count)
                          ELSE normalized]]

MaxCols == 3

Headers ==
    { <<"a">>, <<"A">>, <<"a", "_", "2">>, <<" ", "a", " ">>, <<"A", "-", "-", "2">>,
      <<"a", "_", "3">>, <<"b", " ", "_", "c">>, <<"#">>, <<"_", "_", "B", " ", "c", "!">> }

HeaderLists ==
    {c \in UNION {[1..n -> Headers] : n \in 0..MaxCols} :
        \A i, j \in 1..Len(c) : i # j => c[i] # c[j]}

InitColumns ==
    /\ columns \in HeaderLists
    /\ renamed = Unset
    /\ df = <<>>
    /\ extracted = Unset
    /\ leaderboard = Unset
    /\ value = NaNCell
    /\ amountOut = Unset
    /\ intOut = Unset
    /\ StoreIdle
    /\ user = [s \in Sessions |-> CHOOSE u \in users : u.id = 1]

\* normalize_startup_df calls normalize_columns(df)
NormalizeColumns ==
    /\ renamed = Unset
    /\ renamed' = normalize_columns(columns)
    /\ UNCHANGED <<coerceVars, columns, df, extracted, leaderboard, storeVars, sessionVars,
                   historyVars>>

NextColumns == NormalizeColumns

SpecColumns == InitColumns /\ [][NextColumns]_vars

\* C12: the normalized names of distinct headers are pairwise distinct; the first
\* header producing a token keeps it and the n-th header producing the same token
\* is named token_n.
C12_NormalizedNamesDistinct ==
    renamed.kind = "columns" =>
        /\ \A i, j \in 1..Len(columns) : i # j => renamed.names[i] # renamed.names[j]
        /\ \A i \in 1..Len(columns) :
              LET token == normalize_column_name(columns[i])
                  n == SeenCount(columns, i)
              IN renamed.names[i] =
                     IF n = 1 THEN token ELSE token \o <<"_">> \o IntToStr(n)

(***************************************************************************)
(* The record extractor (src/src/utils.py 145-170), applied to a           *)
(* normalized sheet of at most MaxRows rows.                               *)
(***************************************************************************)
MaxRows == 3

SheetNameCells ==
    {TextCell(<<"a">>), TextCell(<<" ", "a", " ">>), TextCell(<<"b">>), TextCell(<<" ">>),
     TextCell(<<>>), NaNCell, TextCell(<<"0">>)}

Sheets == UNION {[1..n -> [startup_name : SheetNameCells, fields : FieldVals]] : n \in 0..MaxRows}

InitExtract ==
    /\ df \in Sheets
    /\ extracted = Unset
    /\ columns = <<>>
    /\ renamed = Unset
    /\ leaderboard = Unset
    /\ value = NaNCell
    /\ amountOut = Unset
    /\ intOut = Unset
    /\ StoreIdle
    /\ user = [s \in Sessions |-> CHOOSE u \in users : u.id = 1]

\* records = extract_startup_records(normalized_df) (app.py 124)
ExtractRecords ==
    /\ extracted = Unset
    /\ extracted' = extract_startup_records(df)
    /\ UNCHANGED <<coerceVars, columns, renamed, df, leaderboard, storeVars, sessionVars,
                   historyVars>>

NextExtract == ExtractRecords

SpecExtract == InitExtract /\ [][NextExtract]_vars

\* the name cell as text: a number is written in decimal
NameText(v) == IF v.kind = "num" THEN IntToStr(Trunc(v.m, v.e)) ELSE v.s

\* the row has a name that is not null and not empty after trimming
HasUsableName(row) ==
    /\ row.startup_name.kind # "nan"
    /\ \E p \in 1..Len(NameText(row.startup_name)) : ~IsSpace(NameText(row.startup_name)[p])

MaxStartups == 3

LeaderNames == << <<"a">>, <<"b">>, <<"c">>, <<"d">>, <<"e">> >>

RatingValues == {1, 3, 5}

StartupTable(n) ==
    {[id |-> i, startup_name |-> LeaderNames[i],
      fields |-> [year |-> None, amount |-> None],
      raw_json |-> [startup_name |-> TextCell(LeaderNames[i]),
                    fields |-> [year |-> NaNCell, amount |-> NaNCell]]] : i \in 1..n}

\* the ratings table holding rating given[p] for each pair p with given[p] > 0
RatingTable(given) ==
    {[id |-> 2 * (p[1] - 1) + p[2], startup_id |-> p[1], user_id |-> p[2],
      rating |-> given[p], comment |-> ""] : p \in {q \in DOMAIN given : given[q] > 0}}

RECURSIVE SumRatings(_)
SumRatings(rows) ==
    IF rows = {} THEN 0
    ELSE LET r == CHOOSE x \in rows : TRUE
         IN r.rating + SumRatings(rows \ {r})

\* FROM ratings r JOIN startups s ON s.id = r.startup_id GROUP BY s.startup_name
LeaderGroups(srows, rrows) ==
    LET names == {st.startup_name : st \in {x \in srows : \E r \in rrows : r.startup_id = x.id}}
    IN {LET joined == {r \in rrows : \E st \in srows :
                           st.id = r.startup_id /\ st.startup_name = n}
        IN [startup_name |-> n, total |-> SumRatings(joined),
            rating_count |-> Cardinality(joined)] : n \in names}

\* a faulty ORDER BY avg_rating DESC, without the second key
PrecedesByAverageOnly(x, y) == x.total * y.rating_count >= y.total * x.rating_count

\* ORDER BY avg_rating DESC, rating_count DESC: x may stand before y
Precedes(x, y) ==
    \/ x.total * y.rating_count > y.total * x.rating_count
    \/ /\ x.total * y.rating_count = y.total * x.rating_count
       /\ x.rating_count >= y.rating_count

\* df["avg_rating"].round(2), in hundredths; with fewer than eight ratings in a
\* group the average never lies halfway between two hundredths
Round2(total, count) == (200 * total + count) \div (2 * count)

\* the frames the query may return: rows with equal keys come in any order
get_leaderboard_df(srows, rrows) ==
    LET groups == LeaderGroups(srows, rrows)
        n == Cardinality(groups)
    IN {[kind |-> "rows",
         rows |-> [i \in 1..n |->
                     [startup_name |-> order[i].startup_name,
                      avg_rating |-> Round2(order[i].total, order[i].rating_count),
                      rating_count |-> order[i].rating_count]]] :
           order \in {o \in [1..n -> groups] :
                         /\ \A i, j \in 1..n : i # j => o[i] # o[j]
                         /\ \A i, j \in 1..n : i < j => Precedes(o[i], o[j])}}

\* the store as some uploads and rating saves have left it
InitLeaderboard ==
    /\ \E n \in 0..MaxStartups,
          given \in [(1..MaxStartups) \X UserIds -> {0} \cup RatingValues] :
          /\ startups = StartupTable(n)
          /\ ratings = RatingTable(given)
    /\ shortlists = EmptyBag
    /\ app_meta = {}
    /\ SessionIdle
    /\ columns = <<>>
    /\ renamed = Unset
    /\ df = <<>>
    /\ extracted = Unset
    /\ leaderboard = Unset
    /\ value = NaNCell
    /\ amountOut = Unset
    /\ intOut = Unset
    /\ user = [s \in Sessions |-> CHOOSE u \in users : u.id = 1]

\* leaderboard_page: get_leaderboard_df() (app.py 415)
Leaderboard ==
    /\ leaderboard = Unset
    /\ \E frame \in get_leaderboard_df(startups, ratings) : leaderboard' = frame
    /\ UNCHANGED <<coerceVars, columns, renamed, df, extracted, storeVars, sessionVars,
                   historyVars>>

NextLeaderboard == Leaderboard

SpecLeaderboard == InitLeaderboard /\ [][NextLeaderboard]_vars

RatingsOf(st) == {r \in ratings : r.startup_id = st.id}

\* C14: the leaderboard has one row per startup with at least one rating, carrying
\* its average rating (in hundredths) and its rating count; the rows are in
\* descending order of average and, among equal averages, of rating count.
C14_LeaderboardOrdered ==
    leaderboard # Unset =>
        LET rows == leaderboard.rows
            rated == {st \in startups : RatingsOf(st) # {}}
        IN /\ Len(rows) = Cardinality(rated)
           /\ {rows[i].startup_name : i \in 1..Len(rows)} = {st.startup_name : st \in rated}
           /\ \A i \in 1..Len(rows) : \A st \in rated :
                 st.startup_name = rows[i].startup_name =>
                     /\ rows[i].rating_count = Cardinality(RatingsOf(st))
                     /\ rows[i].avg_rating * Cardinality(RatingsOf(st)) =
                            100 * SumRatings(RatingsOf(st))
           /\ \A i, j \in 1..Len(rows) :
                 i < j =>
                     \/ rows[i].avg_rating > rows[j].avg_rating
                     \/ /\ rows[i].avg_rating = rows[j].avg_rating
                        /\ rows[i].rating_count >= rows[j].rating_count

\* a leaderboard of three rows: two startups with the same average from different
\* numbers of ratings, ahead of a startup with a lower average
C14_Witness ==
    /\ leaderboard # Unset
    /\ Len(leaderboard.rows) = 3
    /\ leaderboard.rows[1].avg_rating = leaderboard.rows[2].avg_rating
    /\ leaderboard.rows[1].rating_count > leaderboard.rows[2].rating_count
    /\ leaderboard.rows[2].avg_rating > leaderboard.rows[3].avg_rating
    /\ leaderboard.rows[3].rating_count = 2

(***************************************************************************)
(* Claims about the records the ingestion stores and what refers to them.  *)
(***************************************************************************)
YearInRange(y) == y = None \/ (y.kind = "int" /\ y.m >= 1900 /\ y.m <= 2099)

AmountInRange(a) == a = None \/ (a.kind = "float" /\ a.m >= 0)

\* C15: every startup row that the extraction produced and the ingestion stored
\* has a year that is null or an integer in 1900..2099 and an amount that is null
\* or a non-negative number.
C15_YearAndAmountInRange ==
    \A x \in startups :
        /\ YearInRange(x.fields.year)
        /\ AmountInRange(x.fields.amount)

\* C16: every ratings row and every shortlists row refers to an existing startup
\* row, and a rating's startup row carries the name of the startup the user was
\* shown when saving it.
C16_RowsReferToTheirStartup ==
    /\ \A x \in ratings :
          \E st \in startups :
              /\ st.id = x.startup_id
              /\ st.startup_name = rlog[<<x.startup_id, x.user_id>>].name
    /\ \A p \in BagToSet(shortlists) : \E st \in startups : st.id = p[1]

\* C17: when an upload completes successfully, the metadata value startup_count
\* is the number of rows in the startups table.
C17_CountIsNumberOfRows ==
    [][\A s \in Sessions :
           SetMetaCount(s) =>
               get_meta(app_meta', "startup_count") =
                   TextCell(IntToStr(Cardinality(startups')))]_vars

====
